---- MODULE Spec2Model ----
(***************************************************************************)
(* Audio engine of src-tauri/src/lib.rs: the four tauri commands that      *)
(* enqueue AudioMsg values on an unbounded crossbeam channel, and the      *)
(* audio thread that owns the output stream, the persistent effects sink   *)
(* and the optional music sink.                                            *)
(*                                                                         *)
(* Volumes are f32 in the source; here they are integers in units of       *)
(* 1/10000, so that the literal 0.0001 is 1 and 1.5 is 15000.              *)
(***************************************************************************)
EXTENDS Integers, Sequences, FiniteSets, TLC

\* ---------------------------------------------------------------- bounds
\* messages the channel accepts in one run
MaxSends == 3
\* messages waiting in the channel at one time (the channel itself is unbounded)
MaxQueue == 2
\* caller threads of the concurrent specification
NumProducers == 2

\* ------------------------------------------------------ program constants
EPS == 1
SFX_MAX == 15000
BGM_MAX == 10000
AMP_MAX == 20000
BGM_VOL_INIT == 4500
SFX_SINK_VOLUME == 10000

\* Option<T> is a sequence of at most one element
None == <<>>
Some(x) == <<x>>

Producers == 1..NumProducers
\* the one caller thread of the sequential specification
MainThread == {1}

\* caller-supplied inputs: a negative volume, the epsilon itself, a volume in
\* both ranges, and one above both ranges
Volumes == {-5000, 1, 5000, 20000}
\* the volumes of an effect: the epsilon and one above both ranges
LoudQuiet == {1, 20000}
\* the volume of the concurrent specification: above both ranges
Loud == {20000}
\* the procedural name, a name of the asset bank, a name in neither
Kinds == {"enemy_pickup", "ui", "zap"}
\* the embedded payloads whose decoding the model follows
Assets == {"ui", "bgm"}
\* the builds the model follows: every payload decodes, or none does
Builds == {{}, Assets}

VARIABLES
    corrupt,    \* the embedded payloads that Decoder::new rejects (fixed by the build)
    chan,       \* the unbounded channel: AudioMsg values sent and not yet received
    txAlive,    \* the Sender in tauri's managed state still exists
    sends,      \* number of messages the channel has accepted; stamps the next one
    ret,        \* the last command invocation and what it returned
    wpc,        \* position of the audio thread
    exit,       \* why the audio thread returned
    bgm,        \* Option<Sink>: the music sink
    bgm_vol,    \* the remembered music volume
    sfx_sink,   \* None before creation, then the persistent effects sink
    nsinks,     \* number of music sinks created so far (names the sinks)
    live,       \* music sinks created and not yet dropped
    handled,    \* number of messages the audio thread has received
    msg         \* the audio thread's `msg`: the message it received last

vars == <<corrupt, chan, txAlive, sends, ret, wpc, exit, bgm, bgm_vol,
          sfx_sink, nsinks, live, handled, msg>>

\* ------------------------------------------------------------- AudioMsg
\* enum AudioMsg; p and n are the sending thread and the stamp of the send
Sfx(kind, volume, p, n) ==
    [type |-> "Sfx", kind |-> kind, volume |-> volume, p |-> p, n |-> n]
BgmPlay(volume, p, n) ==
    [type |-> "BgmPlay", kind |-> "", volume |-> volume, p |-> p, n |-> n]
BgmStop(p, n) ==
    [type |-> "BgmStop", kind |-> "", volume |-> 0, p |-> p, n |-> n]
BgmVolume(volume, p, n) ==
    [type |-> "BgmVolume", kind |-> "", volume |-> volume, p |-> p, n |-> n]

\* the audio thread's `msg` before the first rx.recv()
NoMsg == [type |-> "none", kind |-> "", volume |-> 0, p |-> 0, n |-> 0]

\* a clamp that forgets the lower bound
clamp_upper(v, lo, hi) == IF v > hi THEN hi ELSE v

\* f32::clamp
clamp(v, lo, hi) == IF v < lo THEN lo ELSE IF v > hi THEN hi ELSE v

\* fn sfx_bytes: Some(payload) for the seven names of the bank, else None
sfx_bytes(kind) ==
    IF kind \in {"ui", "eat", "boost", "dash", "shield", "poison", "death"}
    THEN Some(kind) ELSE None

\* fn bgm_bytes
bgm_bytes == "bgm"

\* Decoder::new(Cursor::new(bytes)).is_ok()
Decoder_ok(bytes) == bytes \notin corrupt

\* a receiver that outlives the audio thread
rx_leaked == TRUE

\* the receiver lives in the audio thread's closure and is dropped when it returns
rx_alive == wpc # "done"

\* ------------------------------------------------------------ the facade
NoCall == [op |-> "none", muted |-> FALSE, sent |-> FALSE, result |-> "Ok"]

\* the early `return Ok(())` of play_sfx and bgm_play: nothing is sent
Skip(op, muted) ==
    /\ UNCHANGED <<chan, sends>>
    /\ ret' = [op |-> op, muted |-> muted, sent |-> FALSE, result |-> "Ok"]

\* a send on a channel of capacity one: Err while a message waits
Send_bounded(op, muted, m) ==
    /\ rx_alive => (sends < MaxSends /\ Len(chan) < MaxQueue)
    /\ chan' = IF rx_alive /\ chan = <<>> THEN Append(chan, m) ELSE chan
    /\ sends' = IF rx_alive /\ chan = <<>> THEN sends + 1 ELSE sends
    /\ ret' = [op |-> op, muted |-> muted, sent |-> TRUE,
               result |-> IF rx_alive /\ chan = <<>> THEN "Ok" ELSE "Err"]

\* state.0.send(msg).map_err(..): Err exactly when the receiver is gone
Send(op, muted, m) ==
    /\ rx_alive => (sends < MaxSends /\ Len(chan) < MaxQueue)
    /\ chan' = IF rx_alive THEN Append(chan, m) ELSE chan
    /\ sends' = IF rx_alive THEN sends + 1 ELSE sends
    /\ ret' = [op |-> op, muted |-> muted, sent |-> TRUE,
               result |-> IF rx_alive THEN "Ok" ELSE "Err"]

\* a tauri command can run while the application, and so its managed state, lives
Invoke ==
    /\ txAlive
    /\ UNCHANGED <<corrupt, txAlive, wpc, exit, bgm, bgm_vol, sfx_sink, nsinks,
                   live, handled, msg>>

\* play_sfx without the mute test
play_sfx_unmuted(p, kind, volume, muted) ==
    /\ Invoke
    /\ IF volume <= EPS
       THEN Skip("play_sfx", muted)
       ELSE Send("play_sfx", muted,
                 Sfx(kind, clamp(volume, 0, SFX_MAX), p, sends + 1))

play_sfx(p, kind, volume, muted) ==
    /\ Invoke
    /\ IF muted \/ volume <= EPS
       THEN Skip("play_sfx", muted)
       ELSE Send("play_sfx", muted,
                 Sfx(kind, clamp(volume, 0, SFX_MAX), p, sends + 1))

bgm_play(p, volume, muted) ==
    /\ Invoke
    /\ IF muted \/ volume <= EPS
       THEN Skip("bgm_play", muted)
       ELSE Send("bgm_play", muted,
                 BgmPlay(clamp(volume, 0, BGM_MAX), p, sends + 1))

bgm_stop(p) ==
    /\ Invoke
    /\ Send("bgm_stop", FALSE, BgmStop(p, sends + 1))

\* bgm_volume that silences a muted track instead of stopping it
bgm_volume_silence(p, volume, muted) ==
    /\ Invoke
    /\ Send("bgm_volume", muted,
            BgmVolume(IF muted THEN 0 ELSE clamp(volume, 0, BGM_MAX), p, sends + 1))

bgm_volume(p, volume, muted) ==
    /\ Invoke
    /\ IF muted
       THEN Send("bgm_volume", muted, BgmStop(p, sends + 1))
       ELSE Send("bgm_volume", muted,
                 BgmVolume(clamp(volume, 0, BGM_MAX), p, sends + 1))

\* the tauri application ends: the managed AudioTx, the only Sender, is dropped
DropTx ==
    /\ txAlive
    /\ txAlive' = FALSE
    /\ UNCHANGED <<corrupt, chan, sends, ret, wpc, exit, bgm, bgm_vol, sfx_sink,
                   nsinks, live, handled, msg>>

\* ------------------------------------------------------ the audio thread
\* the thread's closure returns: its locals (rx, the sinks) are dropped
Return(why) ==
    /\ wpc' = "done"
    /\ exit' = why
    /\ bgm' = None
    /\ live' = {}

\* a missing output device that is logged without returning from the thread
OutputStream_try_default_continue ==
    /\ wpc = "start"
    /\ wpc' = "sink"
    /\ \/ UNCHANGED exit
       \/ exit' = "device"
    /\ UNCHANGED <<bgm, live, corrupt, chan, txAlive, sends, ret, bgm_vol, sfx_sink,
                   nsinks, handled, msg>>

\* OutputStream::try_default()
OutputStream_try_default ==
    /\ wpc = "start"
    /\ \/ /\ wpc' = "sink"
          /\ UNCHANGED <<exit, bgm, live>>
       \/ Return("device")
    /\ UNCHANGED <<corrupt, chan, txAlive, sends, ret, bgm_vol, sfx_sink, nsinks,
                   handled, msg>>

\* Sink::try_new(&handle) for the effects sink, then sfx_sink.set_volume(1.0)
sfx_Sink_try_new ==
    /\ wpc = "sink"
    /\ \/ /\ wpc' = "loop"
          /\ sfx_sink' = Some([volume |-> SFX_SINK_VOLUME, queue |-> <<>>])
          /\ UNCHANGED <<exit, bgm, live>>
       \/ /\ Return("sfx_sink")
          /\ UNCHANGED sfx_sink
    /\ UNCHANGED <<corrupt, chan, txAlive, sends, ret, bgm_vol, nsinks, handled,
                   msg>>

\* a test that always takes the create branch
is_none_always(o) == TRUE

\* Option::is_none
is_none(o) == o = None

\* a channel that hands out its newest message
Newest == IF chan = <<>> THEN {} ELSE {chan[Len(chan)]}

\* the message rx.recv() returns, if it returns one: the oldest in the channel
Oldest == IF chan = <<>> THEN {} ELSE {Head(chan)}

\* a recv that empties the channel
recv_drain(m) ==
    /\ wpc = "loop"
    /\ chan' = <<>>
    /\ handled' = handled + 1
    /\ msg' = m
    /\ UNCHANGED <<corrupt, txAlive, sends, ret, wpc, exit>>

\* rx.recv() returning Ok(m) in the command loop
recv(m) ==
    /\ wpc = "loop"
    /\ chan' = Tail(chan)
    /\ handled' = handled + 1
    /\ msg' = m
    /\ UNCHANGED <<corrupt, txAlive, sends, ret, wpc, exit>>

\* ------------------------------------------------ the procedural effect
\* let sr: u32 = 48_000, which is 375 * 2^7
sr == 48000

\* 0.14 with the mantissa cut off instead of rounded to nearest
dur_s_truncated == 9395241 - 1

\* let dur_s = 0.14_f32: the nearest f32 to 0.14 is 9395241 * 2^-26
dur_s == 9395241

\* num / den rounded to the nearest integer, ties to the even one
RoundHalfEven(num, den) ==
    LET q == num \div den
        r == num % den
    IN  IF 2 * r > den \/ (2 * r = den /\ q % 2 = 1) THEN q + 1 ELSE q

\* dur_s * sr as f32, in units of 2^-11 (the spacing of the f32 values in
\* [4096, 8192), where the product lies): dur_s * 375 * 2^7 / 2^26 / 2^-11 is
\* dur_s * 375 / 2^8, rounded to nearest even; the high and the low byte of
\* dur_s are multiplied apart to stay within 32 bits
dur_times_sr ==
    LET hi == dur_s \div 256
        lo == dur_s % 256
    IN  hi * (sr \div 128) + RoundHalfEven(lo * (sr \div 128), 256)

\* let n = (dur_s * sr as f32) as usize: the cast drops the fraction
enemy_pickup_n == dur_times_sr \div 2048

\* enemy_pickup_source(): the loop pushes one sample for each i in 0..n and
\* the buffer is built from them; a source is modelled by its length
enemy_pickup_source == Some(enemy_pickup_n)

\* Decoder::new(Cursor::new(bytes)): a stream whose length the payload decides
Decoder_new(bytes) == None

\* sfx_sink.append(src.amplify(amp))
sfx_append(m, amp, src) ==
    sfx_sink' = [sfx_sink EXCEPT
                   ![1].queue = Append(@, [kind |-> m.kind, amp |-> amp,
                                           samples |-> src,
                                           p |-> m.p, n |-> m.n])]

\* an unknown effect name that ends the audio thread
HandleSfx_fatal ==
    \E m \in Oldest :
        /\ m.type = "Sfx"
        /\ wpc = "loop"
        /\ chan' = Tail(chan)
        /\ handled' = handled + 1
        /\ msg' = m
        /\ UNCHANGED <<corrupt, txAlive, sends, ret, bgm_vol, nsinks>>
        /\ LET amp == clamp(m.volume, 0, AMP_MAX) IN
           IF m.kind = "enemy_pickup"
           THEN sfx_append(m, amp, enemy_pickup_source)
                /\ UNCHANGED <<wpc, exit, bgm, live>>
           ELSE IF sfx_bytes(m.kind) = None
           THEN Return("closed") /\ UNCHANGED sfx_sink
           ELSE IF ~Decoder_ok(sfx_bytes(m.kind)[1])
           THEN UNCHANGED <<sfx_sink, wpc, exit, bgm, live>>
           ELSE sfx_append(m, amp, Decoder_new(sfx_bytes(m.kind)[1]))
                /\ UNCHANGED <<wpc, exit, bgm, live>>

\* an Sfx arm that looks every name up in the bank of payloads
HandleSfx_bank_first ==
    \E m \in Oldest :
        /\ m.type = "Sfx"
        /\ recv(m)
        /\ LET amp == clamp(m.volume, 0, AMP_MAX) IN
           IF sfx_bytes(m.kind) = None
           THEN UNCHANGED sfx_sink
           ELSE IF ~Decoder_ok(sfx_bytes(m.kind)[1])
           THEN UNCHANGED sfx_sink
           ELSE sfx_append(m, amp, Decoder_new(sfx_bytes(m.kind)[1]))
        /\ UNCHANGED <<bgm, bgm_vol, nsinks, live>>

\* the AudioMsg::Sfx arm
HandleSfx ==
    \E m \in Oldest :
        /\ m.type = "Sfx"
        /\ recv(m)
        /\ LET amp == clamp(m.volume, 0, AMP_MAX) IN
           IF m.kind = "enemy_pickup"
           THEN sfx_append(m, amp, enemy_pickup_source)
           ELSE IF sfx_bytes(m.kind) = None
           THEN UNCHANGED sfx_sink
           ELSE IF ~Decoder_ok(sfx_bytes(m.kind)[1])
           THEN UNCHANGED sfx_sink
           ELSE sfx_append(m, amp, Decoder_new(sfx_bytes(m.kind)[1]))
        /\ UNCHANGED <<bgm, bgm_vol, nsinks, live>>

\* a BgmPlay arm that returns from the thread where the source continues
HandleBgmPlay_fatal ==
    \E m \in Oldest :
        /\ m.type = "BgmPlay"
        /\ wpc = "loop"
        /\ chan' = Tail(chan)
        /\ handled' = handled + 1
        /\ msg' = m
        /\ UNCHANGED <<corrupt, txAlive, sends, ret, sfx_sink>>
        /\ bgm_vol' = m.volume
        /\ IF is_none(bgm)
           THEN \/ Return("closed") /\ UNCHANGED nsinks
                \/ /\ nsinks' = nsinks + 1
                   /\ IF Decoder_ok(bgm_bytes)
                      THEN /\ bgm' = Some([id |-> nsinks + 1, volume |-> m.volume,
                                              since |-> m.n])
                           /\ live' = live \cup {nsinks + 1}
                           /\ UNCHANGED <<wpc, exit>>
                      ELSE Return("closed")
           ELSE /\ bgm' = [bgm EXCEPT ![1].volume = m.volume]
                /\ UNCHANGED <<nsinks, live, wpc, exit>>

\* the AudioMsg::BgmPlay arm; a sink remembers the command that started its track
HandleBgmPlay ==
    \E m \in Oldest :
        /\ m.type = "BgmPlay"
        /\ recv(m)
        /\ bgm_vol' = m.volume
        /\ IF is_none(bgm)
           THEN \/ \* Sink::try_new failed
                   UNCHANGED <<bgm, nsinks, live>>
                \/ \* the sink exists; the decoder decides whether it is kept
                   /\ nsinks' = nsinks + 1
                   /\ IF Decoder_ok(bgm_bytes)
                      THEN /\ bgm' = Some([id |-> nsinks + 1, volume |-> m.volume,
                                              since |-> m.n])
                           /\ live' = live \cup {nsinks + 1}
                      ELSE UNCHANGED <<bgm, live>>
           ELSE /\ bgm' = [bgm EXCEPT ![1].volume = m.volume]
                /\ UNCHANGED <<nsinks, live>>
        /\ UNCHANGED sfx_sink

\* a BgmVolume arm that starts the music when none plays
HandleBgmVolume_create ==
    \E m \in Oldest :
        /\ m.type = "BgmVolume"
        /\ recv(m)
        /\ bgm_vol' = m.volume
        /\ IF bgm = None
           THEN /\ nsinks' = nsinks + 1
                /\ bgm' = Some([id |-> nsinks + 1, volume |-> m.volume, since |-> m.n])
                /\ live' = live \cup {nsinks + 1}
           ELSE /\ bgm' = [bgm EXCEPT ![1].volume = m.volume]
                /\ UNCHANGED <<nsinks, live>>
        /\ UNCHANGED sfx_sink

\* a BgmVolume arm that remembers the volume and leaves the sink alone
HandleBgmVolume_forget ==
    \E m \in Oldest :
        /\ m.type = "BgmVolume"
        /\ recv(m)
        /\ bgm_vol' = m.volume
        /\ UNCHANGED <<bgm, sfx_sink, nsinks, live>>

\* the AudioMsg::BgmVolume arm
HandleBgmVolume ==
    \E m \in Oldest :
        /\ m.type = "BgmVolume"
        /\ recv(m)
        /\ bgm_vol' = m.volume
        /\ bgm' = IF bgm = None THEN None ELSE [bgm EXCEPT ![1].volume = m.volume]
        /\ UNCHANGED <<sfx_sink, nsinks, live>>

\* a BgmStop arm that also clears the effects sink
HandleBgmStop_all ==
    \E m \in Oldest :
        /\ m.type = "BgmStop"
        /\ recv(m)
        /\ bgm' = None
        /\ live' = IF bgm = None THEN live ELSE live \ {bgm[1].id}
        /\ sfx_sink' = [sfx_sink EXCEPT ![1].queue = <<>>]
        /\ UNCHANGED <<bgm_vol, nsinks>>

\* a BgmStop arm that stops the sink and keeps it in the slot
HandleBgmStop_keep ==
    \E m \in Oldest :
        /\ m.type = "BgmStop"
        /\ recv(m)
        /\ UNCHANGED <<bgm, live, bgm_vol, sfx_sink, nsinks>>

\* the AudioMsg::BgmStop arm: bgm.take() and s.stop()
HandleBgmStop ==
    \E m \in Oldest :
        /\ m.type = "BgmStop"
        /\ recv(m)
        /\ bgm' = None
        /\ live' = IF bgm = None THEN live ELSE live \ {bgm[1].id}
        /\ UNCHANGED <<bgm_vol, sfx_sink, nsinks>>

\* a try_recv in place of recv: Err as soon as the channel is empty
RecvEmpty ==
    /\ wpc = "loop"
    /\ chan = <<>>
    /\ Return("closed")
    /\ UNCHANGED <<corrupt, chan, txAlive, sends, ret, bgm_vol, sfx_sink, nsinks,
                   handled, msg>>

\* a recv that gives up as soon as every Sender is gone
RecvDisconnected_eager ==
    /\ wpc = "loop"
    /\ ~txAlive
    /\ Return("closed")
    /\ UNCHANGED <<corrupt, chan, txAlive, sends, ret, bgm_vol, sfx_sink, nsinks,
                   handled, msg>>

\* rx.recv() returning Err: the channel is empty and every Sender is gone
RecvDisconnected ==
    /\ wpc = "loop"
    /\ chan = <<>>
    /\ ~txAlive
    /\ Return("closed")
    /\ UNCHANGED <<corrupt, chan, txAlive, sends, ret, bgm_vol, sfx_sink, nsinks,
                   handled, msg>>

Worker ==
    \/ OutputStream_try_default
    \/ sfx_Sink_try_new
    \/ HandleSfx
    \/ HandleBgmPlay
    \/ HandleBgmVolume
    \/ HandleBgmStop
    \/ RecvDisconnected

\* ---------------------------------------------------------- specification
Init ==
    /\ corrupt \in Builds
    /\ chan = <<>>
    /\ txAlive = TRUE
    /\ sends = 0
    /\ ret = NoCall
    /\ wpc = "start"
    /\ exit = "none"
    /\ bgm = None
    /\ bgm_vol = BGM_VOL_INIT
    /\ sfx_sink = None
    /\ nsinks = 0
    /\ live = {}
    /\ handled = 0
    /\ msg = NoMsg

\* one caller thread, every command, every volume
Next ==
    \/ \E p \in MainThread, k \in Kinds, v \in LoudQuiet, mu \in BOOLEAN :
           play_sfx(p, k, v, mu)
    \/ \E p \in MainThread, v \in Volumes, mu \in BOOLEAN : bgm_play(p, v, mu)
    \/ \E p \in MainThread : bgm_stop(p)
    \/ \E p \in MainThread, v \in Volumes, mu \in BOOLEAN : bgm_volume(p, v, mu)
    \/ DropTx
    \/ Worker

Spec == Init /\ [][Next]_vars

\* several caller threads racing on the one Sender with audible effects and
\* music starts
ConcNext ==
    \/ \E p \in Producers, k \in Kinds, v \in Loud : play_sfx(p, k, v, FALSE)
    \/ \E p \in Producers, v \in Loud : bgm_play(p, v, FALSE)
    \/ DropTx
    \/ OutputStream_try_default
    \/ sfx_Sink_try_new
    \/ HandleSfx
    \/ HandleBgmPlay
    \/ RecvDisconnected

\* the audio thread is a running OS thread: whenever it can take a step it
\* eventually does
ConcSpec == Init /\ [][ConcNext]_vars /\ WF_vars(Worker)

TypeOK ==
    /\ corrupt \subseteq Assets
    /\ sends \in 0..MaxSends
    /\ wpc \in {"start", "sink", "loop", "done"}
    /\ exit \in {"none", "device", "sfx_sink", "closed"}
    /\ txAlive \in BOOLEAN

\* ------------------------------------------------------------ properties
\* a step of the audio thread that received a message
Received == handled' = handled + 1

\* C1: at most one music sink is live; a BgmPlay handled while the slot is
\* present creates no sink, keeps the sink and its track, and only sets the
\* sink's volume to the command's gain
C1_OneMusicSink ==
    [][/\ Cardinality(live') <= 1
       /\ (Received /\ msg'.type = "BgmPlay" /\ bgm # None) =>
              /\ nsinks' = nsinks
              /\ live' = live
              /\ bgm' # None
              /\ bgm'[1].id = bgm[1].id
              /\ bgm'[1].since = bgm[1].since
              /\ bgm'[1].volume = msg'.volume]_vars

\* two BgmPlay commands with different gains were handled, the second one
\* adjusted the sink the first one created
C1_Witness ==
    /\ handled = 2
    /\ msg.type = "BgmPlay" /\ msg.n = 2 /\ msg.volume = 10000
    /\ bgm # None /\ bgm[1].since = 1 /\ bgm[1].volume = 10000
    /\ nsinks = 1 /\ live = {1}

Quiet(v, mu) == mu \/ v <= EPS

\* a step in which the command `op` returned
Called(op) == ret'.op = op /\ UNCHANGED <<handled, txAlive, wpc>>

\* C2 as claimed: play_sfx, bgm_play and bgm_volume leave the channel alone
\* when called muted or with a volume of at most the epsilon
C2_AsClaimed ==
    [][/\ Called("play_sfx") =>
              \A p \in MainThread, k \in Kinds, v \in LoudQuiet, mu \in BOOLEAN :
                  (Quiet(v, mu) /\ play_sfx(p, k, v, mu)) => chan' = chan
       /\ Called("bgm_play") =>
              \A p \in MainThread, v \in Volumes, mu \in BOOLEAN :
                  (Quiet(v, mu) /\ bgm_play(p, v, mu)) => chan' = chan
       /\ Called("bgm_volume") =>
              \A p \in MainThread, v \in Volumes, mu \in BOOLEAN :
                  (Quiet(v, mu) /\ bgm_volume(p, v, mu)) => chan' = chan]_vars

\* C2 amended: play_sfx and bgm_play leave the channel alone and return Ok
\* when called muted or with a volume of at most the epsilon (stated as: a
\* call that changes the channel or returns Err is no such call); bgm_volume
\* never does: while the receiver lives each call enqueues exactly one command
C2_NoTraffic ==
    [][/\ (Called("play_sfx") /\ (chan' # chan \/ ret'.result # "Ok")) =>
              \A p \in MainThread, k \in Kinds, v \in Volumes, mu \in BOOLEAN :
                  Quiet(v, mu) => ~play_sfx(p, k, v, mu)
       /\ (Called("bgm_play") /\ (chan' # chan \/ ret'.result # "Ok")) =>
              \A p \in MainThread, v \in Volumes, mu \in BOOLEAN :
                  Quiet(v, mu) => ~bgm_play(p, v, mu)
       /\ (Called("bgm_volume") /\ wpc # "done") =>
              /\ Len(chan') = Len(chan) + 1
              /\ chan'[Len(chan')].type \in {"BgmStop", "BgmVolume"}]_vars

\* a muted play_sfx returned Ok while the audio thread was in its loop, and
\* the channel never saw a message
C2_Witness ==
    /\ ret.op = "play_sfx" /\ ret.muted /\ ~ret.sent /\ ret.result = "Ok"
    /\ wpc = "loop" /\ sends = 0 /\ chan = <<>>

\* C3: bgm_volume with muted = true does to the channel and returns what
\* bgm_stop does from the same state (one BgmStop appended and Ok, or nothing
\* appended and Err when the receiver is gone), whatever the volume, and never
\* enqueues BgmVolume; a handled BgmStop leaves the music slot absent
C3_MutedIsStop ==
    [][/\ Called("bgm_volume") =>
          \A p \in MainThread, v \in Volumes :
              bgm_volume(p, v, TRUE) =>
                  /\ chan' = IF wpc # "done"
                             THEN Append(chan, BgmStop(p, sends + 1)) ELSE chan
                  /\ ret'.result = IF wpc # "done" THEN "Ok" ELSE "Err"
                  /\ \A i \in DOMAIN chan' :
                         chan'[i].type = "BgmVolume" => i \in DOMAIN chan
       /\ (Received /\ msg'.type = "BgmStop") => (bgm' = None /\ live' = {})]_vars

\* music was playing, the muted bgm_volume was the second send, and the audio
\* thread has handled its BgmStop: the slot is absent
C3_Witness ==
    /\ ret.op = "bgm_volume" /\ ret.muted /\ ret.sent /\ ret.result = "Ok"
    /\ sends = 2 /\ handled = 2 /\ msg.type = "BgmStop" /\ msg.n = 2
    /\ nsinks = 1 /\ "bgm" \notin corrupt
    /\ bgm = None /\ live = {}

\* C4 as claimed: the command a muted or at-most-epsilon bgm_volume call puts
\* on the channel (BgmStop, or BgmVolume with a gain of at most the epsilon)
\* leaves the music slot absent once handled
C4_AsClaimed ==
    [][(/\ Received
        /\ \/ msg'.type = "BgmStop"
           \/ msg'.type = "BgmVolume" /\ msg'.volume <= EPS) => bgm' = None]_vars

InRange(m) ==
    /\ m.type = "Sfx" => (0 <= m.volume /\ m.volume <= SFX_MAX)
    /\ m.type \in {"BgmPlay", "BgmVolume"} => (0 <= m.volume /\ m.volume <= BGM_MAX)

\* C5: every message on the channel carries a gain inside its range, effects
\* in [0, 1.5] and music in [0, 1.0]; a call returns Err only when the receiver
\* is gone, never because of its volume
C5_GainInRange ==
    /\ \A i \in DOMAIN chan : InRange(chan[i])
    /\ ret.result = "Err" => wpc = "done"

\* an effect sent with a volume above its range and a music gain sent with a
\* negative volume wait in the channel, clamped to 1.5 and to 0
C5_Witness ==
    /\ Len(chan) = 2
    /\ chan[1].type = "Sfx" /\ chan[1].volume = SFX_MAX
    /\ chan[2].type = "BgmVolume" /\ chan[2].volume = 0
    /\ ret.result = "Ok"

\* C6: once the audio thread has returned because the output device was
\* unavailable, every call that sends returns Err and enqueues nothing
C6_ErrAfterDeviceFailure ==
    [][(wpc = "done" /\ exit = "device") =>
           /\ Called("play_sfx") =>
                  \A p \in MainThread, k \in Kinds, v \in Volumes, mu \in BOOLEAN :
                      (~Quiet(v, mu) /\ play_sfx(p, k, v, mu)) =>
                          (ret'.result = "Err" /\ chan' = chan)
           /\ Called("bgm_play") =>
                  \A p \in MainThread, v \in Volumes, mu \in BOOLEAN :
                      (~Quiet(v, mu) /\ bgm_play(p, v, mu)) =>
                          (ret'.result = "Err" /\ chan' = chan)
           /\ Called("bgm_stop") =>
                  \A p \in MainThread :
                      bgm_stop(p) => (ret'.result = "Err" /\ chan' = chan)
           /\ Called("bgm_volume") =>
                  \A p \in MainThread, v \in Volumes, mu \in BOOLEAN :
                      bgm_volume(p, v, mu) =>
                          (ret'.result = "Err" /\ chan' = chan)]_vars

\* the device was unavailable and a later play_sfx that sends was refused
C6_Witness ==
    /\ wpc = "done" /\ exit = "device"
    /\ ret.op = "play_sfx" /\ ret.sent /\ ret.result = "Err"
    /\ sends = 0

\* an effect the audio thread can render: the procedural one, or one of the
\* bank whose payload decodes
Renderable(m) ==
    /\ m.type = "Sfx"
    /\ \/ m.kind = "enemy_pickup"
       \/ sfx_bytes(m.kind) # None /\ Decoder_ok(sfx_bytes(m.kind)[1])

\* the renderable effect stamped n waits in the channel
Queued(n) == \E i \in DOMAIN chan : chan[i].n = n /\ Renderable(chan[i])

\* how often the effect stamped n was appended to the effects sink
Appended(n) ==
    IF sfx_sink = None THEN 0
    ELSE Cardinality({i \in DOMAIN sfx_sink[1].queue : sfx_sink[1].queue[i].n = n})

\* C7: with several threads calling play_sfx, every renderable effect that
\* waits in the channel while the audio thread is in its loop is eventually
\* appended to the effects sink, and no effect is ever appended twice or
\* appended and still waiting
C7_AllRendered ==
    /\ \A n \in 1..MaxSends : (wpc = "loop" /\ Queued(n)) ~> (Appended(n) = 1)
    /\ [](\A n \in 1..MaxSends :
              /\ Appended(n) <= 1
              /\ Appended(n) = 1 => ~\E i \in DOMAIN chan : chan[i].n = n)

\* effects of two different threads were both appended
C7_Witness ==
    /\ sfx_sink # None /\ Len(sfx_sink[1].queue) = 2
    /\ sfx_sink[1].queue[1].p # sfx_sink[1].queue[2].p
    /\ handled = 2 /\ chan = <<>>

\* seq without its i-th element
Without(seq, i) == SubSeq(seq, 1, i - 1) \o SubSeq(seq, i + 1, Len(seq))

\* C8: the audio thread receives the commands of each thread in the order
\* that thread sent them (stamps grow with each send): the message it takes
\* is older than every waiting message of the same thread, and the effects
\* appended to the sink for one thread appear in that thread's send order
C8_ProducerOrder ==
    [][/\ Received =>
              \E i \in DOMAIN chan :
                  /\ msg' = chan[i]
                  /\ chan' = Without(chan, i)
                  /\ \A j \in DOMAIN chan :
                         (j # i /\ chan[j].p = chan[i].p) => chan[j].n > chan[i].n
       /\ sfx_sink' # None =>
              \A i, j \in DOMAIN sfx_sink'[1].queue :
                  (i < j /\ sfx_sink'[1].queue[i].p = sfx_sink'[1].queue[j].p) =>
                      sfx_sink'[1].queue[i].n < sfx_sink'[1].queue[j].n]_vars

\* two effects of thread 1 were appended in their send order, with an effect
\* of thread 2 sent and appended between them
C8_Witness ==
    /\ sfx_sink # None /\ Len(sfx_sink[1].queue) = 3
    /\ sfx_sink[1].queue[1].p = 1 /\ sfx_sink[1].queue[1].n = 1
    /\ sfx_sink[1].queue[2].p = 2 /\ sfx_sink[1].queue[2].n = 2
    /\ sfx_sink[1].queue[3].p = 1 /\ sfx_sink[1].queue[3].n = 3

\* an effect whose name is neither the procedural name nor a name of the bank
Unknown(m) ==
    m.type = "Sfx" /\ m.kind # "enemy_pickup" /\ sfx_bytes(m.kind) = None

\* C9: handling an effect with an unknown name changes neither the effects
\* sink nor the music slot, leaves the audio thread in its loop with the rest
\* of the channel untouched, and every command that waits behind it is
\* eventually received
C9_UnknownIsNoOp ==
    /\ [][(Received /\ Unknown(msg')) =>
              /\ sfx_sink' = sfx_sink
              /\ bgm' = bgm /\ bgm_vol' = bgm_vol /\ live' = live /\ nsinks' = nsinks
              /\ wpc' = "loop" /\ exit' = exit
              /\ chan' = Tail(chan)]_vars
    /\ \A n \in 1..MaxSends :
           (wpc = "loop" /\ Unknown(msg) /\ \E i \in DOMAIN chan : chan[i].n = n)
               ~> (msg.n = n)

\* an unknown effect was handled first and nothing was appended for it (no
\* payload is corrupt and no music command was handled, so only an unknown
\* name explains the missing source); the audio thread went on to render the
\* effect sent after it
C9_Witness ==
    /\ corrupt = {} /\ bgm_vol = BGM_VOL_INIT
    /\ handled = 2 /\ msg.n = 2 /\ msg.type = "Sfx" /\ msg.kind = "enemy_pickup"
    /\ sfx_sink # None /\ Len(sfx_sink[1].queue) = 1 /\ sfx_sink[1].queue[1].n = 2
    /\ wpc = "loop"

\* C10 as claimed: the audio thread returns only at startup when the output
\* device cannot be acquired, or from its loop when the channel is empty and
\* the Sender is gone
C10_AsClaimed ==
    [][(wpc # "done" /\ wpc' = "done") =>
           \/ wpc = "start"
           \/ wpc = "loop" /\ chan = <<>> /\ ~txAlive]_vars

\* C10 amended: the audio thread returns only at startup, when the output
\* device cannot be acquired or the effects sink cannot be created, or from
\* its loop when the channel is empty and the Sender is gone; handling a
\* command never ends it
C10_TerminalOnly ==
    [][/\ (wpc # "done" /\ wpc' = "done") =>
              \/ wpc = "start" /\ exit' = "device"
              \/ wpc = "sink" /\ exit' = "sfx_sink"
              \/ wpc = "loop" /\ chan = <<>> /\ ~txAlive /\ exit' = "closed"
       /\ Received => wpc' = "loop"
       /\ wpc = "done" => wpc' = "done"]_vars

\* the audio thread returned because the effects sink could not be created,
\* with the Sender alive and a command waiting
C10_Witness ==
    /\ wpc = "done" /\ exit = "sfx_sink"
    /\ txAlive /\ chan # <<>>

\* the message the audio thread received last could not be rendered: an effect
\* of the bank whose payload does not decode, or a music start that left the
\* slot absent (no sink, or a payload that does not decode)
NotRendered ==
    \/ /\ msg.type = "Sfx" /\ sfx_bytes(msg.kind) # None
       /\ ~Decoder_ok(sfx_bytes(msg.kind)[1])
    \/ msg.type = "BgmPlay" /\ bgm = None

\* C11: a command that cannot be rendered is dropped alone: handling it
\* leaves the audio thread in its loop with the sinks, the rest of the channel
\* and the callers' results untouched, every command waiting behind it is
\* eventually received, and the call that enqueued any command returned Ok
C11_RenderErrorIsLocal ==
    /\ [][/\ (Received /\ NotRendered') =>
                 /\ wpc' = "loop" /\ exit' = exit
                 /\ chan' = Tail(chan)
                 /\ sfx_sink' = sfx_sink /\ bgm' = bgm /\ live' = live
                 /\ ret' = ret
          /\ Len(chan') > Len(chan) => (ret'.sent /\ ret'.result = "Ok")
          /\ ret'.result = "Err" => wpc = "done"]_vars
    /\ \A n \in 1..MaxSends :
           (wpc = "loop" /\ NotRendered /\ \E i \in DOMAIN chan : chan[i].n = n)
               ~> (msg.n = n)

\* a music start was handled first and left the slot absent; the audio thread
\* went on to render the effect sent after it, and the last call returned Ok
C11_Witness ==
    /\ corrupt = Assets
    /\ handled = 2 /\ msg.n = 2 /\ msg.type = "Sfx" /\ msg.kind = "enemy_pickup"
    /\ bgm_vol = BGM_MAX /\ bgm = None
    /\ sfx_sink # None /\ Len(sfx_sink[1].queue) = 1
    /\ wpc = "loop" /\ ret.result = "Ok"

IsMusic(m) == m.type \in {"BgmPlay", "BgmStop", "BgmVolume"}

\* q extends p at its end
Extends(q, p) == Len(q) >= Len(p) /\ SubSeq(q, 1, Len(p)) = p

\* C12: handling a music command leaves the effects sink as it is, handling
\* an effect leaves the music slot and the music volume as they are, the
\* effects sink keeps its volume of 1.0, and no step removes a source from it
C12_MusicEffectsIndependent ==
    [][/\ (Received /\ IsMusic(msg')) => sfx_sink' = sfx_sink
       /\ (Received /\ msg'.type = "Sfx") =>
              (bgm' = bgm /\ bgm_vol' = bgm_vol /\ live' = live /\ nsinks' = nsinks)
       /\ sfx_sink # None =>
              /\ sfx_sink' # None
              /\ sfx_sink'[1].volume = SFX_SINK_VOLUME
              /\ Extends(sfx_sink'[1].queue, sfx_sink[1].queue)]_vars

\* an effect was appended, music was started and then stopped: the slot is
\* absent and the effect is still in the effects sink
C12_Witness ==
    /\ handled = 3 /\ msg.type = "BgmStop"
    /\ nsinks = 1 /\ corrupt = {} /\ bgm = None
    /\ sfx_sink # None /\ Len(sfx_sink[1].queue) = 1
    /\ sfx_sink[1].volume = SFX_SINK_VOLUME

\* C13: a BgmVolume handled while the slot is absent leaves it absent and
\* creates no sink; a BgmPlay that fills the absent slot gives the new sink
\* the gain of that BgmPlay
C13_GainWhileStopped ==
    [][/\ (Received /\ msg'.type = "BgmVolume" /\ bgm = None) =>
              (bgm' = None /\ nsinks' = nsinks /\ live' = live)
       /\ (Received /\ msg'.type = "BgmPlay" /\ bgm = None /\ bgm' # None) =>
              (bgm'[1].volume = msg'.volume /\ nsinks' = nsinks + 1)]_vars

\* a BgmVolume with gain 0.5 was handled with the slot absent, the slot is
\* still absent, and a BgmPlay with gain 1.0 waits behind it
C13_Witness ==
    /\ handled = 1 /\ msg.type = "BgmVolume" /\ msg.volume = 5000
    /\ bgm = None /\ nsinks = 0 /\ live = {}
    /\ Len(chan) = 1 /\ chan[1].type = "BgmPlay" /\ chan[1].volume = BGM_MAX

\* C14: a handled BgmStop leaves the slot absent and no music sink live, and
\* changes nothing when the slot was absent; the sink a BgmPlay puts into the
\* absent slot is a new one, started by that command
C14_StopReleases ==
    [][/\ (Received /\ msg'.type = "BgmStop") =>
              /\ bgm' = None /\ live' = {} /\ nsinks' = nsinks
              /\ bgm = None =>
                     (live' = live /\ bgm_vol' = bgm_vol /\ sfx_sink' = sfx_sink)
       /\ (Received /\ msg'.type = "BgmPlay" /\ bgm = None /\ bgm' # None) =>
              /\ bgm'[1].id > nsinks
              /\ bgm'[1].since = msg'.n
              /\ live' = {bgm'[1].id}]_vars

\* music was started, stopped and started again: the slot holds the second
\* sink, started by the third command
C14_Witness ==
    /\ handled = 3 /\ msg.type = "BgmPlay" /\ msg.n = 3
    /\ corrupt = {} /\ nsinks = 2
    /\ bgm # None /\ bgm[1].id = 2 /\ bgm[1].since = 3 /\ live = {2}

\* a step in which a command tried to send
Sending ==
    /\ UNCHANGED <<handled, txAlive, wpc>>
    /\ ret'.sent
    /\ chan' # chan \/ ret' # ret

\* C15: a call that sends returns Err exactly when the audio thread has
\* returned; while it has not, the message is appended whatever already waits
\* in the channel and whatever the audio thread is doing, and the call changes
\* nothing but the channel and its own result; a command is never disabled by
\* the state of the audio thread
C15_SendNeverBlocks ==
    [][/\ Sending =>
              /\ ret'.result = "Err" <=> wpc = "done"
              /\ wpc # "done" => (Len(chan') = Len(chan) + 1 /\ ret'.result = "Ok")
              /\ UNCHANGED <<bgm, bgm_vol, sfx_sink, nsinks, live, msg, exit>>
       /\ (txAlive /\ sends < MaxSends /\ Len(chan) < MaxQueue) =>
              ENABLED (\E p \in MainThread : bgm_stop(p))]_vars

\* two sends returned Ok before the audio thread took its first step
C15_Witness ==
    /\ wpc = "start" /\ handled = 0
    /\ Len(chan) = 2 /\ sends = 2
    /\ ret.sent /\ ret.result = "Ok"

\* the sources of the procedural effect in the effects sink
Procedural ==
    IF sfx_sink = None THEN {}
    ELSE {i \in DOMAIN sfx_sink[1].queue : sfx_sink[1].queue[i].kind = "enemy_pickup"}

C17_ProceduralAlwaysPlays ==
    [][(Received /\ msg'.type = "Sfx" /\ msg'.kind = "enemy_pickup") =>
           /\ sfx_sink'[1].queue =
                  Append(sfx_sink[1].queue,
                         [kind |-> "enemy_pickup", amp |-> msg'.volume,
                          samples |-> enemy_pickup_source,
                          p |-> msg'.p, n |-> msg'.n])
           /\ InRange(msg') /\ msg'.volume <= SFX_MAX
           /\ wpc' = "loop"]_vars

\* in a build where no payload decodes, the procedural effect was handled
\* and its source is in the effects sink with the gain 1.5 of the command
C17_Witness ==
    /\ corrupt = Assets
    /\ handled = 1 /\ msg.type = "Sfx" /\ msg.kind = "enemy_pickup"
    /\ sfx_sink # None /\ Len(sfx_sink[1].queue) = 1
    /\ sfx_sink[1].queue[1].amp = SFX_MAX /\ sfx_sink[1].queue[1].n = 1

\* C18: while the music slot is present its sink has the volume bgm_vol, and
\* bgm_vol is the gain of the BgmPlay or BgmVolume handled last: those two
\* set it to their gain and no other step changes it
C18_VolumeInSync ==
    /\ [](bgm # None => bgm[1].volume = bgm_vol)
    /\ [][/\ (Received /\ msg'.type \in {"BgmPlay", "BgmVolume"}) =>
                 bgm_vol' = msg'.volume
          /\ ~(Received /\ msg'.type \in {"BgmPlay", "BgmVolume"}) =>
                 bgm_vol' = bgm_vol]_vars

\* music was started and a BgmVolume with gain 0.5 was handled while it played
C18_Witness ==
    /\ handled = 2 /\ msg.type = "BgmVolume" /\ msg.volume = 5000
    /\ bgm # None /\ bgm[1].since = 1
    /\ bgm[1].volume = 5000 /\ bgm_vol = 5000

\* C19: once the audio thread has failed at startup it has received nothing
\* and never will: every message sent is still in the channel, no source was
\* appended, no music sink was created and the slot is absent
C19_StartupFailureConsumesNothing ==
    /\ [](exit \in {"device", "sfx_sink"} =>
              /\ wpc = "done"
              /\ handled = 0 /\ msg = NoMsg
              /\ Len(chan) = sends
              /\ sfx_sink = None
              /\ bgm = None /\ nsinks = 0 /\ live = {} /\ bgm_vol = BGM_VOL_INIT)
    /\ [][wpc = "done" =>
              (chan' = chan /\ handled' = handled /\ wpc' = "done" /\ exit' = exit)]_vars

\* two calls returned Ok before the audio thread found no output device; their
\* messages are still in the channel
C19_Witness ==
    /\ wpc = "done" /\ exit = "device"
    /\ sends = 2 /\ Len(chan) = 2 /\ handled = 0
    /\ ret.sent /\ ret.result = "Ok"

\* C20: the audio thread leaves its loop only when every Sender is gone and
\* the channel is empty, having received every message sent, each time the
\* oldest one; once every Sender is gone it eventually returns
C20_DrainThenTerminate ==
    /\ [][/\ (wpc = "loop" /\ wpc' = "done") =>
                 (~txAlive /\ chan = <<>> /\ handled = sends /\ exit' = "closed")
          /\ Received => (msg' = Head(chan) /\ chan' = Tail(chan))]_vars
    /\ (wpc = "loop" /\ ~txAlive) ~>
           (wpc = "done" /\ exit = "closed" /\ handled = sends /\ chan = <<>>)

\* the audio thread returned from its loop after it had received every
\* message, three of them
C20_Witness ==
    /\ wpc = "done" /\ exit = "closed" /\ ~txAlive
    /\ handled = MaxSends /\ sends = MaxSends /\ chan = <<>>

====
